---- MODULE Spec2Model ----
(***************************************************************************)
(* The ReAct orchestration engine of the stock assistant:                  *)
(*   StockAnalysisService.analyze -> ReActWorkflow.run -> agent_node /     *)
(*   should_continue loop -> ReActCoordinator._step -> ReActAgent.reason,  *)
(*   model call, parse_tool_usage, BaseTool.execute, format_tool_result.   *)
(*                                                                         *)
(* Texts are sequences of tokens.  The protocol markers "Action:",         *)
(* "Action Input:" and "Final Answer:" are tokens of their own, " " and    *)
(* "\n" are the whitespace tokens, every other token is a word without     *)
(* whitespace and without a marker inside.  Python values that may be None *)
(* carry their type: [t |-> "str", v |-> text] or [t |-> "None", ...].     *)
(***************************************************************************)
EXTENDS Integers, Sequences, FiniteSets, TLC

VARIABLES
    agent,        \* class of the agent injected into the coordinator
    query,        \* analyze(query, ...)
    session_id,   \* analyze(..., session_id)
    pc,           \* position of the analyze call
    state,        \* the AgentState threaded through the workflow
    exc,          \* exception in flight out of the workflow, or NoExc
    payload,      \* what analyze returned
    calls,        \* number of agent_node invocations of the run
    replies,      \* the model replies of the run, in call order
    tool_calls,   \* the tool invocations of the run, in call order
    arg,          \* argument of a function applied on its own
    result,       \* what that function returned or raised
    checkpointer, \* the MemorySaver of one ReActWorkflow: thread -> state
    runs          \* the run calls sharing that ReActWorkflow

\* the variables of one analyze call
analyze_vars == <<agent, query, session_id, pc, state, exc, payload, calls,
                  replies, tool_calls>>

\* the variables of the functions applied on their own
call_vars == <<arg, result>>

\* the variables of the run calls sharing one workflow
workflow_vars == <<checkpointer, runs>>

vars == <<analyze_vars, call_vars, workflow_vars>>

----------------------------------------------------------------------------
(* Python values *)

None == [t |-> "None", v |-> <<>>]

Str(text) == [t |-> "str", v |-> text]

\* bool(x) for x a str or None
Truthy(x) == x.t = "str" /\ x.v # <<>>

NoExc == "none"

----------------------------------------------------------------------------
(* Text operations, as the str methods the code calls *)

ActionMarker == "Action:"
ActionInputMarker == "Action Input:"
FinalAnswerMarker == "Final Answer:"

Whitespace == {" ", "\n"}

\* marker in text
Contains(text, marker) == \E i \in 1..Len(text) : text[i] = marker

RECURSIVE LStrip(_)
LStrip(text) ==
    IF text # <<>> /\ Head(text) \in Whitespace THEN LStrip(Tail(text)) ELSE text

RECURSIVE RStrip(_)
RStrip(text) ==
    IF text # <<>> /\ text[Len(text)] \in Whitespace
    THEN RStrip(SubSeq(text, 1, Len(text) - 1))
    ELSE text

\* text.strip()
Strip(text) == RStrip(LStrip(text))

\* text.split(marker)[1]: what follows the first marker
SplitLast_first(text, marker) ==
    IF ~Contains(text, marker) THEN text
    ELSE LET first == CHOOSE i \in 1..Len(text) :
                         /\ text[i] = marker
                         /\ \A j \in 1..(i - 1) : text[j] # marker
         IN  SubSeq(text, first + 1, Len(text))

\* text.split(marker)[-1]
SplitLast(text, marker) ==
    IF ~Contains(text, marker) THEN text
    ELSE LET last == CHOOSE i \in 1..Len(text) :
                        /\ text[i] = marker
                        /\ \A j \in (i + 1)..Len(text) : text[j] # marker
         IN  SubSeq(text, last + 1, Len(text))

\* text.split("\n")
RECURSIVE SplitLines(_)
SplitLines(text) ==
    IF ~Contains(text, "\n") THEN <<text>>
    ELSE LET first == CHOOSE i \in 1..Len(text) :
                         /\ text[i] = "\n"
                         /\ \A j \in 1..(i - 1) : text[j] # "\n"
         IN  <<SubSeq(text, 1, first - 1)>>
                 \o SplitLines(SubSeq(text, first + 1, Len(text)))

\* line.startswith(marker)
StartsWith(line, marker) == line # <<>> /\ Head(line) = marker

\* line.replace(marker, "")
Replace(line, marker) == SelectSeq(line, LAMBDA tok : tok # marker)

----------------------------------------------------------------------------
(* The collaborators injected into the coordinator *)

\* keys of the tool registry
ToolNames == {"rag_knowledge", "tavily_search", "chat_llm"}

\* The coordinator is written against the abstract ReActAgent.  The one
\* concrete class is StockReActAgent; "ReActAgent" stands for an agent
\* that implements the interface as section 4.1 of the specification
\* words it, with a system instruction that is a string.
AgentClasses == {"StockReActAgent", "ReActAgent"}

\* StockReActAgent._get_system_prompt: the return statement stands alone
\* on its line, the prompt literal under it is a class-level expression.
_get_system_prompt == None

\* the fixed system instruction of an agent that follows the interface
system_instruction == Str(<<"Instruction">>)

SystemPromptOf(a) ==
    IF a = "StockReActAgent" THEN _get_system_prompt ELSE system_instruction

Msg(role, content) == [role |-> role, content |-> content]

\* reason without the system turn
reason_no_system_turn(a, s) ==
    [messages |-> s.messages,
     current_step |-> s.current_step,
     final_answer |-> None]

\* ReActAgent.reason, try branch.  state carries messages and
\* current_step in every state the workflow builds.
reason(a, s) ==
    LET messages == s.messages
        current_step == s.current_step
        system_prompt == SystemPromptOf(a)
        conversation == <<Msg("system", system_prompt)>> \o messages
    IN  [messages |-> conversation,
         current_step |-> current_step,
         final_answer |-> None]

\* the loop of parse_tool_usage over the lines: the last line starting
\* with each marker wins, "Action:" being tested first
RECURSIVE ScanLines(_, _, _)
ScanLines(lines, action_line, input_line) ==
    IF lines = <<>> THEN <<action_line, input_line>>
    ELSE LET line == Strip(Head(lines))
         IN  IF StartsWith(line, ActionMarker)
             THEN ScanLines(Tail(lines), Str(line), input_line)
             ELSE IF StartsWith(line, ActionInputMarker)
             THEN ScanLines(Tail(lines), action_line, Str(line))
             ELSE ScanLines(Tail(lines), action_line, input_line)

\* parse_tool_usage asking for the "Action:" line only
parse_tool_usage_action_only(message) ==
    IF ~Contains(message, ActionMarker) THEN <<None, None>>
    ELSE LET found == ScanLines(SplitLines(message), None, None)
             action_line == found[1]
             input_line == found[2]
         IN  IF Truthy(action_line)
             THEN <<Str(Strip(Replace(action_line.v, ActionMarker))),
                    Str(Strip(Replace(input_line.v, ActionInputMarker)))>>
             ELSE <<None, None>>

\* parse_tool_usage keeping the first line of each marker
parse_tool_usage_first_wins(message) ==
    LET lines == SplitLines(message)
        Marked(marker) ==
            {i \in 1..Len(lines) : StartsWith(Strip(lines[i]), marker)}
        First(marker) ==
            Strip(lines[CHOOSE i \in Marked(marker) :
                            \A j \in Marked(marker) : i <= j])
    IN  IF Marked(ActionMarker) = {} \/ Marked(ActionInputMarker) = {}
        THEN <<None, None>>
        ELSE <<Str(Strip(Replace(First(ActionMarker), ActionMarker))),
               Str(Strip(Replace(First(ActionInputMarker), ActionInputMarker)))>>

\* StockReActAgent.parse_tool_usage: <<tool_name, tool_input>>
parse_tool_usage(message) ==
    IF ~Contains(message, ActionMarker) THEN <<None, None>>
    ELSE LET found == ScanLines(SplitLines(message), None, None)
             action_line == found[1]
             input_line == found[2]
         IN  IF Truthy(action_line) /\ Truthy(input_line)
             THEN <<Str(Strip(Replace(action_line.v, ActionMarker))),
                    Str(Strip(Replace(input_line.v, ActionInputMarker)))>>
             ELSE <<None, None>>

\* a registry that knows every name
InRegistry_any_name(tool_name) ==
    /\ tool_name.t = "str"
    /\ Len(tool_name.v) = 1

\* tool_name in self.tools
InRegistry(tool_name) ==
    /\ tool_name.t = "str"
    /\ Len(tool_name.v) = 1
    /\ tool_name.v[1] \in ToolNames

\* the keys of the dict each tool's _execute_impl returns
ResultKeys(tool) ==
    IF tool = "rag_knowledge"
    THEN {"query", "knowledge_context", "sources", "total_results",
          "confidence_scores"}
    ELSE IF tool = "tavily_search"
    THEN {"query", "results", "total_results"}
    ELSE {"query", "response", "model", "usage", "total_tokens", "provider"}

\* A tool result is the dict the tool's _execute_impl returns: keys are
\* its keys, text is knowledge_context (rag_knowledge), the content of
\* each result (tavily_search) or response (chat_llm); n is len(sources)
\* or len(results).
ToolResult(tool, text, n) ==
    [keys |-> ResultKeys(tool), text |-> text, n |-> n]

\* StockReActAgent.format_tool_result
format_tool_result(tool_name, tool_result) ==
    IF tool_name = "rag_knowledge"
    THEN <<"Thong tin tu co so du lieu noi bo:", "\n">> \o tool_result.text
            \o (IF tool_result.n > 0
                THEN <<"\n", "\n", "Nguon tham khao:", " ", "tai lieu">>
                ELSE <<>>)
    ELSE IF tool_name = "tavily_search"
    THEN IF tool_result.n = 0
         THEN <<"Khong tim thay thong tin lien quan tren web.">>
         ELSE <<"Ket qua tim kiem web:", "\n", "*", " ">>
                 \o tool_result.text \o <<"...">>
    ELSE IF tool_name = "chat_llm"
    THEN <<"Ket qua tu LLM", ":", "\n">> \o tool_result.text
    ELSE <<"str(tool_result)">>

\* BaseTool.execute: the outcome of _execute_impl, returned or raised as is
execute(impl_outcome) == impl_outcome

Raised(e) == [raised |-> TRUE, exc |-> e, val |-> <<>>]
Returned(v) == [raised |-> FALSE, exc |-> NoExc, val |-> v]

\* a state dict as reason may receive it: present are the keys it has,
\* messages is tagged with its Python type
StateDict(present, messages, current_step) ==
    [present |-> present, messages |-> messages,
     current_step |-> current_step]

\* a list value, and values list concatenation rejects
List(v) == [t |-> "list", v |-> v]
NotAList == {[t |-> "None", v |-> <<>>], [t |-> "tuple", v |-> <<>>]}

\* the turn and the answer of the except branch of reason
ErrorTurn(e) == Msg("assistant", Str(<<"Loi xu ly:", " ", e>>))
ErrorAnswer(e) == Str(<<"Xin loi, da xay ra loi:", " ", e>>)

\* StockReActAgent.reason, try and except: the handler reads
\* state["messages"] again and the local current_step, which is bound only
\* when the second statement of the try has run
reason_call(a, d) ==
    LET try ==
            IF "messages" \notin d.present THEN Raised("KeyError")
            ELSE IF "current_step" \notin d.present THEN Raised("KeyError")
            ELSE IF d.messages.t # "list" THEN Raised("TypeError")
            ELSE Returned(reason(a, [messages |-> d.messages.v,
                                     current_step |-> d.current_step]))
        current_step_bound == {"messages", "current_step"} \subseteq d.present
        handler ==
            IF "messages" \notin d.present THEN Raised("KeyError")
            ELSE IF d.messages.t # "list" THEN Raised("TypeError")
            ELSE IF ~current_step_bound THEN Raised("UnboundLocalError")
            ELSE Returned([messages |-> Append(d.messages.v,
                                               ErrorTurn(try.exc)),
                           current_step |-> d.current_step + 1,
                           final_answer |-> ErrorAnswer(try.exc)])
    IN  IF try.raised THEN handler ELSE try

\* every content of the conversation is a str, as "\n".join needs
Joinable(conversation) ==
    \A i \in 1..Len(conversation) : conversation[i].content.t = "str"

\* What one call of _step does, given the outcome of the model call and of
\* the tool call it may make: st is the state returned (when not raised),
\* llm tells whether the model was called, tool is the tool invoked.
StepOut(raised, e, st, llm, tool, tool_input) ==
    [raised |-> raised, exc |-> e, st |-> st, llm |-> llm, tool |-> tool,
     tool_input |-> tool_input]

\* _step, return of the branch taken when reason produced a final answer
ReturnReasoned(s, conversation, current_step, final_answer) ==
    [s EXCEPT !.messages = conversation,
              !.current_step = current_step + 1,
              !.final_answer = final_answer]

\* _step, return of the "Final Answer:" branch
ReturnFinalAnswer(s, messages, current_step, final_answer) ==
    [s EXCEPT !.messages = messages,
              !.current_step = current_step + 1,
              !.final_answer = Str(final_answer)]

\* the return of the tool branch without the result in
\* intermediate_results
ReturnToolDispatch_no_result(s, messages, current_step, tool_name, tool_result, observation) ==
    [s EXCEPT !.messages = messages \o <<Msg("user", Str(observation))>>,
              !.current_step = current_step + 1,
              !.tools_used = @ \o <<tool_name>>]

\* the return of the tool branch without the tool name in tools_used
ReturnToolDispatch_no_tools_used(s, messages, current_step, tool_name, tool_result, observation) ==
    [s EXCEPT !.messages = messages \o <<Msg("user", Str(observation))>>,
              !.current_step = current_step + 1,
              !.intermediate_results = @ \o <<tool_result>>]

\* _step, return of the tool branch
ReturnToolDispatch(s, messages, current_step, tool_name, tool_result, observation) ==
    [s EXCEPT !.messages = messages \o <<Msg("user", Str(observation))>>,
              !.current_step = current_step + 1,
              !.tools_used = @ \o <<tool_name>>,
              !.intermediate_results = @ \o <<tool_result>>]

\* the last return of _step without the increment of the counter
ReturnThinking_no_increment(s, messages, current_step) ==
    [s EXCEPT !.messages = messages]

\* _step, last return: no final answer and no tool to call
ReturnThinking(s, messages, current_step) ==
    [s EXCEPT !.messages = messages,
              !.current_step = current_step + 1]

\* _step falling back on the chat_llm tool when the model call raises
_step_tool_on_chat_error(a, s, chat_outcome, tool_outcome) ==
    LET reasoning_result == reason(a, s)
        conversation == reasoning_result.messages
        current_step == reasoning_result.current_step
    IN
    IF Truthy(reasoning_result.final_answer)
    THEN StepOut(FALSE, NoExc,
                 ReturnReasoned(s, conversation, current_step,
                                reasoning_result.final_answer),
                 FALSE, None, None)
    ELSE IF ~Joinable(conversation)
    THEN StepOut(TRUE, "TypeError", s, FALSE, None, None)
    ELSE IF chat_outcome.raised
    THEN StepOut(TRUE, chat_outcome.exc, s, TRUE, Str(<<"chat_llm">>),
                 Str(<<>>))
    ELSE
    LET response_content == chat_outcome.val
        messages == conversation \o <<Msg("assistant", Str(response_content))>>
    IN
    IF Contains(response_content, FinalAnswerMarker)
    THEN LET final_answer ==
                 Strip(SplitLast(response_content, FinalAnswerMarker))
         IN  StepOut(FALSE, NoExc,
                     ReturnFinalAnswer(s, messages, current_step, final_answer),
                     TRUE, None, None)
    ELSE
    LET parsed == parse_tool_usage(response_content)
        tool_name == parsed[1]
        tool_input == parsed[2]
    IN
    IF Truthy(tool_name) /\ InRegistry(tool_name)
    THEN LET tool_result == execute(tool_outcome)
         IN  IF tool_result.raised
             THEN StepOut(TRUE, tool_result.exc, s, TRUE, tool_name, tool_input)
             ELSE LET observation ==
                          format_tool_result(tool_name.v[1], tool_result.val)
                  IN  StepOut(FALSE, NoExc,
                              ReturnToolDispatch(s, messages, current_step,
                                                 tool_name.v[1], tool_result.val,
                                                 observation),
                              TRUE, tool_name, tool_input)
    ELSE StepOut(FALSE, NoExc, ReturnThinking(s, messages, current_step),
                 TRUE, None, None)

\* ReActCoordinator._step
_step(a, s, chat_outcome, tool_outcome) ==
    LET reasoning_result == reason(a, s)
        conversation == reasoning_result.messages
        current_step == reasoning_result.current_step
    IN
    IF Truthy(reasoning_result.final_answer)
    THEN StepOut(FALSE, NoExc,
                 ReturnReasoned(s, conversation, current_step,
                                reasoning_result.final_answer),
                 FALSE, None, None)
    ELSE IF ~Joinable(conversation)
    THEN StepOut(TRUE, "TypeError", s, FALSE, None, None)
    ELSE IF chat_outcome.raised
    THEN StepOut(TRUE, chat_outcome.exc, s, TRUE, None, None)
    ELSE
    LET response_content == chat_outcome.val
        messages == conversation \o <<Msg("assistant", Str(response_content))>>
    IN
    IF Contains(response_content, FinalAnswerMarker)
    THEN LET final_answer ==
                 Strip(SplitLast(response_content, FinalAnswerMarker))
         IN  StepOut(FALSE, NoExc,
                     ReturnFinalAnswer(s, messages, current_step, final_answer),
                     TRUE, None, None)
    ELSE
    LET parsed == parse_tool_usage(response_content)
        tool_name == parsed[1]
        tool_input == parsed[2]
    IN
    IF Truthy(tool_name) /\ InRegistry(tool_name)
    THEN LET tool_result == execute(tool_outcome)
         IN  IF tool_result.raised
             THEN StepOut(TRUE, tool_result.exc, s, TRUE, tool_name, tool_input)
             ELSE LET observation ==
                          format_tool_result(tool_name.v[1], tool_result.val)
                  IN  StepOut(FALSE, NoExc,
                              ReturnToolDispatch(s, messages, current_step,
                                                 tool_name.v[1], tool_result.val,
                                                 observation),
                              TRUE, tool_name, tool_input)
    ELSE StepOut(FALSE, NoExc, ReturnThinking(s, messages, current_step),
                 TRUE, None, None)

----------------------------------------------------------------------------
(* The workflow driver *)

\* ReActWorkflow.run: max_steps of the initial state
max_steps == 10

\* AgentState with the defaults of its fields
AgentState(messages, current_step, maxsteps, tools_used, intermediate_results) ==
    [messages |-> messages,
     current_step |-> current_step,
     max_steps |-> maxsteps,
     tools_used |-> tools_used,
     intermediate_results |-> intermediate_results,
     final_answer |-> None]

\* ReActWorkflow.run: initial_state
initial_state(q) == AgentState(<<Msg("user", Str(q))>>, 0, max_steps, <<>>, <<>>)

\* should_continue without the test of the step budget
should_continue_no_budget(s) ==
    LET messages == s.messages
    IN  IF Truthy(s.final_answer) THEN "end"
        ELSE IF messages # <<>>
                /\ Contains(messages[Len(messages)].content.v, ActionMarker)
        THEN "continue"
        ELSE "end"

\* should_continue with the budget compared by > instead of >=
should_continue_off_by_one(s) ==
    LET messages == s.messages
    IN  IF Truthy(s.final_answer) THEN "end"
        ELSE IF s.current_step > s.max_steps THEN "end"
        ELSE IF messages # <<>>
                /\ Contains(messages[Len(messages)].content.v, ActionMarker)
        THEN "continue"
        ELSE "end"

\* should_continue that goes on when the last message has no "Action:"
should_continue_no_implicit_stop(s) ==
    IF Truthy(s.final_answer) THEN "end"
    ELSE IF s.current_step >= s.max_steps THEN "end"
    ELSE "continue"

\* should_continue of ReActWorkflow._build_workflow
should_continue(s) ==
    LET messages == s.messages
        last_message == IF messages # <<>> THEN messages[Len(messages)]
                        ELSE Msg("none", None)
    IN  IF Truthy(s.final_answer) THEN "end"
        ELSE IF s.current_step >= s.max_steps THEN "end"
        ELSE IF messages # <<>> /\ last_message.content.t # "str"
        THEN "TypeError"
        ELSE IF messages # <<>> /\ Contains(last_message.content.v, ActionMarker)
        THEN "continue"
        ELSE "end"

----------------------------------------------------------------------------
(* The analysis service *)

\* the loop of analyze that builds combined_answer; a content that is not
\* a str cannot be concatenated
RECURSIVE Combined(_)
Combined(messages) ==
    IF messages = <<>> THEN Returned(<<>>)
    ELSE LET msg == Head(messages)
             rest == Combined(Tail(messages))
         IN  IF msg.role = "user" THEN rest
             ELSE IF msg.content.t # "str" THEN Raised("TypeError")
             ELSE IF rest.raised THEN rest
             ELSE Returned(msg.content.v \o <<"\n">> \o rest.val)

\* the except branch of StockAnalysisService.analyze
FailurePayload(sid, e) ==
    [answer |-> <<"Xin loi, da xay ra loi trong qua trinh phan tich:", " ", e>>,
     metadata |-> [success |-> FALSE,
                   session_id |-> sid,
                   steps |-> 0,
                   tools_used |-> <<>>,
                   intermediate_results |-> <<>>]]

\* the try branch of StockAnalysisService.analyze, from the state run
\* returned; an exception inside it reaches the except branch
SuccessPayload(sid, final_state) ==
    LET final_answer == final_state.final_answer
        messages == final_state.messages
        tools_used == final_state.tools_used
        intermediate_results == final_state.intermediate_results
        combined_answer == Combined(messages)
    IN  IF combined_answer.raised
        THEN FailurePayload(sid, combined_answer.exc)
        ELSE [answer |-> IF Truthy(final_answer) THEN final_answer.v
                         ELSE Strip(combined_answer.val),
              metadata |-> [success |-> TRUE,
                            session_id |-> sid,
                            steps |-> Len(messages),
                            tools_used |-> tools_used,
                            intermediate_results |-> intermediate_results]]

\* "except Exception" of analyze: the classes it catches
ExceptionClasses == {"TypeError", "ChatError", "ToolError"}

\* a handler for TypeError alone
Catches_type_error_only(e) == e = "TypeError"

Catches(e) == e \in ExceptionClasses

----------------------------------------------------------------------------
(* What the environment can do *)

Queries == {<<"Hi">>, <<"gia", " ", "VNM">>}

SessionIds == {None, Str(<<"s1">>)}

ActionLines(tool, input) ==
    <<ActionMarker, " ", tool, "\n", ActionInputMarker, " ", input>>

\* a bare thought
ThoughtReply == <<"Thought:", " ", "think">>

\* a thought and a request for a registered tool
ToolReply(tool) == <<"Thought:", " ", "think", "\n">> \o ActionLines(tool, "VNM")

\* a final answer
FinalReply == <<"Thought:", " ", "done", "\n", FinalAnswerMarker, " ", "answer">>

\* a request for a tool that is not in the registry
UnknownToolReply == ActionLines("calculator", "VNM")

\* the model replies of a run
Replies ==
    {ThoughtReply, FinalReply, UnknownToolReply}
        \cup {ToolReply(tool) : tool \in ToolNames}

PlainText == <<"data">>

\* a tool output that quotes the protocol
EchoText == <<"say", " ", ActionMarker, " ", "chat_llm">>

\* what a tool's _execute_impl can return
ToolResults(tool) ==
    IF tool = "chat_llm"
    THEN {ToolResult(tool, text, 0) : text \in {PlainText, EchoText}}
    ELSE {ToolResult(tool, PlainText, n) : n \in 0..1}

ChatOutcomes == {Returned(r) : r \in Replies} \cup {Raised("ChatError")}

ToolOutcomes(tool) ==
    {Returned(r) : r \in ToolResults(tool)} \cup {Raised("ToolError")}

NoTool == Raised("NoTool")

\* the tool a reply makes _step invoke, if any
Dispatched(chat_outcome) ==
    IF chat_outcome.raised \/ Contains(chat_outcome.val, FinalAnswerMarker)
    THEN None
    ELSE LET tool_name == parse_tool_usage(chat_outcome.val)[1]
         IN  IF Truthy(tool_name) /\ InRegistry(tool_name) THEN tool_name
             ELSE None

\* the outcomes of the tool call a reply leads to
ToolOutcomesFor(chat_outcome) ==
    LET tool_name == Dispatched(chat_outcome)
    IN  IF tool_name = None THEN {NoTool} ELSE ToolOutcomes(tool_name.v[1])

----------------------------------------------------------------------------
(* One call of analyze *)

EmptyState == AgentState(<<>>, 0, max_steps, <<>>, <<>>)

\* payload before analyze has returned
EmptyPayload == FailurePayload(None, NoExc)

\* no function is applied on its own
NoCall == arg = <<>> /\ result = <<>>

\* no workflow is shared between run calls
NoWorkflow == checkpointer = <<>> /\ runs = <<>>

Init ==
    /\ agent \in AgentClasses
    /\ query \in Queries
    /\ session_id \in SessionIds
    /\ pc = "start"
    /\ state = EmptyState
    /\ exc = NoExc
    /\ payload = EmptyPayload
    /\ calls = 0
    /\ replies = <<>>
    /\ tool_calls = <<>>
    /\ NoCall
    /\ NoWorkflow

\* ReActWorkflow.run, except branch, with the exception replaced by a
\* return of the state
run_except_returns(e) == [pc |-> "returned", exc |-> e]

\* ReActWorkflow.run, except branch: the exception is logged and raised
\* again, run returns nothing
run_except(e) == [pc |-> "raised", exc |-> e]

\* analyze calls run, run builds the initial state and enters the graph
run ==
    /\ pc = "start"
    /\ state' = initial_state(query)
    /\ pc' = "agent"
    /\ UNCHANGED <<agent, query, session_id, exc, payload, calls, replies,
                   tool_calls>>
    /\ UNCHANGED <<call_vars, workflow_vars>>

\* the node "agent": one call of _step, the model answering with one of
\* chat_outcomes; an exception leaves run
AgentNode(chat_outcomes) ==
    /\ pc = "agent"
    /\ \E chat_outcome \in chat_outcomes :
         \E tool_outcome \in ToolOutcomesFor(chat_outcome) :
           LET out == _step(agent, state, chat_outcome, tool_outcome)
           IN  /\ calls' = calls + 1
               /\ replies' = IF out.llm /\ ~chat_outcome.raised
                             THEN Append(replies, chat_outcome.val)
                             ELSE replies
               /\ tool_calls' = IF out.tool # None
                                THEN Append(tool_calls,
                                            [tool |-> out.tool.v[1],
                                             input |-> out.tool_input.v,
                                             outcome |-> tool_outcome])
                                ELSE tool_calls
               /\ IF out.raised
                  THEN /\ exc' = run_except(out.exc).exc
                       /\ pc' = run_except(out.exc).pc
                       /\ state' = state
                  ELSE /\ exc' = exc
                       /\ pc' = "route"
                       /\ state' = out.st
    /\ UNCHANGED <<agent, query, session_id, payload>>
    /\ UNCHANGED <<call_vars, workflow_vars>>

agent_node == AgentNode(ChatOutcomes)

\* the conditional edge after the node: back to the node, or END, where
\* run returns the state of the last step (the stream has yielded the
\* update of every step, so the fallback dict of run is not returned)
route ==
    /\ pc = "route"
    /\ LET edge == should_continue(state)
       IN  IF edge = "continue" THEN pc' = "agent" /\ exc' = exc
           ELSE IF edge = "end" THEN pc' = "returned" /\ exc' = exc
           ELSE pc' = run_except(edge).pc /\ exc' = run_except(edge).exc
    /\ UNCHANGED <<agent, query, session_id, state, payload, calls, replies,
                   tool_calls>>
    /\ UNCHANGED <<call_vars, workflow_vars>>

\* analyze reshapes the state run returned
analyze_return ==
    /\ pc = "returned"
    /\ payload' = SuccessPayload(session_id, state)
    /\ pc' = "done"
    /\ UNCHANGED <<agent, query, session_id, state, exc, calls, replies,
                   tool_calls>>
    /\ UNCHANGED <<call_vars, workflow_vars>>

\* analyze catches what run raised
analyze_except ==
    /\ pc = "raised"
    /\ IF Catches(exc)
       THEN payload' = FailurePayload(session_id, exc) /\ pc' = "done"
       ELSE payload' = payload /\ pc' = "propagated"
    /\ UNCHANGED <<agent, query, session_id, state, exc, calls, replies,
                   tool_calls>>
    /\ UNCHANGED <<call_vars, workflow_vars>>

Next == run \/ agent_node \/ route \/ analyze_return \/ analyze_except

Spec == Init /\ [][Next]_vars

----------------------------------------------------------------------------
(* _step and the reshaping of analyze, applied to a given state *)

\* the states _step returns from the states of S, for an agent whose
\* system instruction is a string
StepStates(S) ==
    LET outs == UNION { UNION { {_step("ReActAgent", s, c, t) :
                                    t \in ToolOutcomesFor(c)} :
                                c \in ChatOutcomes} :
                        s \in S}
    IN  {out.st : out \in {o \in outs : ~o.raised}}

InitialStates == {initial_state(q) : q \in Queries}

\* a final answer of an earlier step
OldAnswer == Str(<<"old", " ", "answer">>)

\* the states _step is called on: those of the first two steps of a run,
\* and the same with a final answer already set
StepInputs ==
    LET S1 == StepStates(InitialStates)
    IN  InitialStates \cup S1
            \cup {[s EXCEPT !.final_answer = OldAnswer] : s \in S1}

\* one call of _step on a state of StepInputs
InitStep ==
    /\ agent \in AgentClasses
    /\ query \in Queries
    /\ session_id = None
    /\ pc = "agent"
    /\ state \in StepInputs
    /\ exc = NoExc
    /\ payload = EmptyPayload
    /\ calls = 0
    /\ replies = <<>>
    /\ tool_calls = <<>>
    /\ NoCall
    /\ NoWorkflow

SpecStep == InitStep /\ [][agent_node]_vars

\* the states handed to the reshaping of analyze: the state before any
\* step and those the first two steps return
FinalStates ==
    LET S1 == StepStates(InitialStates)
    IN  InitialStates \cup S1 \cup StepStates(S1)

InitAnalyze ==
    /\ agent \in AgentClasses
    /\ query \in Queries
    /\ session_id \in SessionIds
    /\ pc = "returned"
    /\ state \in FinalStates
    /\ exc = NoExc
    /\ payload = EmptyPayload
    /\ calls = 0
    /\ replies = <<>>
    /\ tool_calls = <<>>
    /\ NoCall
    /\ NoWorkflow

SpecAnalyze == InitAnalyze /\ [][analyze_return]_vars

----------------------------------------------------------------------------
(* reason applied to a given state dict *)

\* no analyze call is under way: f is the function applied on its own
NoAnalyze(f) ==
    /\ query = <<>>
    /\ session_id = None
    /\ pc = f
    /\ state = EmptyState
    /\ exc = NoExc
    /\ payload = EmptyPayload
    /\ calls = 0
    /\ replies = <<>>
    /\ tool_calls = <<>>

\* the state dicts reason is called on: the messages of StepInputs, or a
\* value that is no list, with either key present or not
ReasonInputs ==
    {StateDict(present, messages, current_step) :
        present \in SUBSET {"messages", "current_step"},
        messages \in {List(s.messages) : s \in StepInputs} \cup NotAList,
        current_step \in {0, 1}}

InitReason ==
    /\ agent \in AgentClasses
    /\ NoAnalyze("reason")
    /\ arg \in ReasonInputs
    /\ result = <<>>
    /\ NoWorkflow

\* one call of reason
reason_return ==
    /\ pc = "reason"
    /\ result' = reason_call(agent, arg)
    /\ pc' = "reasoned"
    /\ UNCHANGED <<agent, query, session_id, state, exc, payload, calls,
                   replies, tool_calls, arg>>
    /\ UNCHANGED workflow_vars

SpecReason == InitReason /\ [][reason_return]_vars

----------------------------------------------------------------------------
(* _step and should_continue on replies that place the markers freely *)

\* a tool request followed by a final-answer marker with only whitespace
\* after it
EmptyFinalActionReply == ActionLines("chat_llm", "VNM") \o <<"\n", FinalAnswerMarker, " ">>

\* a final-answer marker with nothing after it
EmptyFinalReply == <<"Thought:", " ", "done", "\n", FinalAnswerMarker>>

\* the final-answer marker in the middle of a line
MidLineFinalReply == <<"the", " ", FinalAnswerMarker, " ", "comes", " ", "later">>

\* the action marker in the middle of a line
MidLineActionReply == <<"next", " ", ActionMarker, " ", "chat_llm">>

\* a request for a registered tool followed by a final answer
FinalWithActionReply ==
    ActionLines("chat_llm", "VNM") \o <<"\n", FinalAnswerMarker, " ", "answer">>

\* the final-answer marker twice
TwoFinalReply ==
    <<FinalAnswerMarker, " ", "first", "\n", FinalAnswerMarker, " ", "second", " ">>

\* an action marker without a tool name
EmptyNameReply == <<ActionMarker, "\n", ActionInputMarker, " ", "VNM">>

MarkerReplies ==
    Replies \cup {EmptyFinalActionReply, EmptyFinalReply, MidLineFinalReply,
                  MidLineActionReply, FinalWithActionReply, TwoFinalReply,
                  EmptyNameReply}

MarkerChatOutcomes == {Returned(r) : r \in MarkerReplies}

\* steps taken from a state of StepInputs
MaxStepCalls == 2

agent_node_markers ==
    /\ calls < MaxStepCalls
    /\ AgentNode(MarkerChatOutcomes)

SpecMarkers == InitStep /\ [][agent_node_markers \/ route]_vars

----------------------------------------------------------------------------
(* parse_tool_usage applied to a given text *)

\* the lines the texts are made of: both markers with two values each, a
\* line without marker, an indented marker, a marker in the middle of a
\* line, a marker with nothing after it, both markers on one line
ParseLines ==
    {<<ActionMarker, " ", "a">>,
     <<ActionInputMarker, " ", "x">>,
     <<ActionMarker, " ", "b">>,
     <<ActionInputMarker, " ", "y">>,
     <<"Thought:", " ", "think">>,
     <<" ", ActionMarker, " ", "chat_llm", " ">>,
     <<"next", " ", ActionMarker, " ", "a">>,
     <<ActionMarker>>,
     <<ActionMarker, " ", "a", " ", ActionInputMarker, " ", "x">>}

\* lines of a text
MaxLines == 3

\* "\n".join(lines)
RECURSIVE JoinLines(_)
JoinLines(lines) ==
    IF Len(lines) = 1 THEN lines[1]
    ELSE lines[1] \o <<"\n">> \o JoinLines(Tail(lines))

\* the reply of the example given with parse_tool_usage
ExampleReply == ActionLines("chat_llm", "hello")

\* the reply of the example given for repeated markers
RepeatedReply ==
    JoinLines(<<<<ActionMarker, " ", "a">>, <<ActionInputMarker, " ", "x">>,
                <<ActionMarker, " ", "b">>, <<ActionInputMarker, " ", "y">>>>)

ParseInputs ==
    {ExampleReply, RepeatedReply}
        \cup UNION {{JoinLines(lines) : lines \in [1..n -> ParseLines]} :
                       n \in 1..MaxLines}

InitParse ==
    /\ agent = "StockReActAgent"
    /\ NoAnalyze("parse")
    /\ arg \in ParseInputs
    /\ result = <<>>
    /\ NoWorkflow

\* one call of parse_tool_usage
parse_return ==
    /\ pc = "parse"
    /\ result' = parse_tool_usage(arg)
    /\ pc' = "parsed"
    /\ UNCHANGED <<agent, query, session_id, state, exc, payload, calls,
                   replies, tool_calls, arg>>
    /\ UNCHANGED workflow_vars

SpecParse == InitParse /\ [][parse_return]_vars

----------------------------------------------------------------------------
(* Several run calls on one ReActWorkflow *)

\* run calls made on the workflow
NumRuns == 2

RunIds == 1..NumRuns

\* ReActWorkflow.run: thread_id of config
thread_id(sid) == IF Truthy(sid) THEN sid.v ELSE <<"default">>

Threads == {thread_id(sid) : sid \in SessionIds}

\* a thread the MemorySaver holds nothing for; writer is the run that
\* saved the values, 0 for none
NoCheckpoint == [saved |-> FALSE, values |-> EmptyState, writer |-> 0]

\* workflow.astream(initial_state, config) on a thread: the graph takes
\* up the values saved for the thread and writes the fields the input
\* sets over them; initial_state sets every field except final_answer
astream_input(checkpoint, input) ==
    IF checkpoint.saved
    THEN [input EXCEPT !.final_answer = checkpoint.values.final_answer]
    ELSE input

\* the model replies of these runs: each ends its run after one step
SessionChatOutcomes ==
    {Returned(ThoughtReply), Returned(FinalReply), Raised("ChatError")}

InitSessions ==
    /\ agent \in AgentClasses
    /\ NoAnalyze("runs")
    /\ NoCall
    /\ checkpointer = [t \in Threads |-> NoCheckpoint]
    /\ runs \in [RunIds -> {[pc |-> "start", query |-> q, session_id |-> sid,
                             state |-> EmptyState, read_from |-> 0,
                             overwrote |-> {}] :
                               q \in Queries, sid \in SessionIds}]

\* the MemorySaver after run r has saved values for thread t
Saved(r, t, values) ==
    [checkpointer EXCEPT ![t] = [saved |-> TRUE, values |-> values,
                                 writer |-> r]]

\* the runs whose saved values run r replaces by saving for thread t
Replaced(r, t) ==
    IF checkpointer[t].saved /\ checkpointer[t].writer # r
    THEN {checkpointer[t].writer} ELSE {}

\* run r builds its initial state and enters the graph on its thread
run_start(r) ==
    /\ runs[r].pc = "start"
    /\ LET t == thread_id(runs[r].session_id)
           entered == astream_input(checkpointer[t],
                                    initial_state(runs[r].query))
       IN  /\ runs' = [runs EXCEPT ![r].pc = "agent",
                                   ![r].state = entered,
                                   ![r].read_from = checkpointer[t].writer,
                                   ![r].overwrote = Replaced(r, t)]
           /\ checkpointer' = Saved(r, t, entered)
    /\ UNCHANGED <<analyze_vars, call_vars>>

\* one step of run r: the node, the conditional edge after it, and the
\* checkpoint of the step
run_step(r) ==
    /\ runs[r].pc = "agent"
    /\ \E chat_outcome \in SessionChatOutcomes :
         LET t == thread_id(runs[r].session_id)
             out == _step(agent, runs[r].state, chat_outcome, NoTool)
             edge == should_continue(out.st)
         IN  IF out.raised \/ edge \notin {"continue", "end"}
             THEN /\ runs' = [runs EXCEPT ![r].pc = "raised"]
                  /\ checkpointer' = checkpointer
             ELSE /\ runs' = [runs EXCEPT
                                 ![r].pc = IF edge = "continue" THEN "agent"
                                           ELSE "returned",
                                 ![r].state = out.st,
                                 ![r].overwrote = @ \cup Replaced(r, t)]
                  /\ checkpointer' = Saved(r, t, out.st)
    /\ UNCHANGED <<analyze_vars, call_vars>>

SpecSessions ==
    InitSessions /\ [][\E r \in RunIds : run_start(r) \/ run_step(r)]_vars

----------------------------------------------------------------------------
(* The health gate of the query endpoint *)

\* HealthCheckService.services, in the order of the dict
Services ==
    <<"vector_store", "llm", "search", "rag_provider", "cohere_embedding",
      "s3_loader">>

ServiceNames == {Services[i] : i \in 1..Len(Services)}

\* what the check_health of one dependency can do
HealthOutcomes ==
    {Returned("healthy"), Returned("unhealthy"), Raised("HealthError")}

\* the status check_health records for a dependency
RecordedStatus(outcome) ==
    IF outcome.raised THEN "unhealthy" ELSE outcome.val

\* check_health stopping at the first dependency that fails
check_health_stops_at_failure(outcomes) ==
    LET Failed(i) == RecordedStatus(outcomes[Services[i]]) = "unhealthy"
        failing == {i \in 1..Len(Services) : Failed(i)}
        last == IF failing = {} THEN Len(Services)
                ELSE CHOOSE i \in failing : \A j \in failing : i <= j
    IN  [status |-> IF failing = {} THEN "healthy" ELSE "unhealthy",
         services |-> [name \in {Services[i] : i \in 1..last} |->
                          RecordedStatus(outcomes[name])],
         checked |-> SubSeq(Services, 1, last)]

\* the loop of check_health over the dependencies still to check: a
\* check that raises is recorded as unhealthy and the loop goes on
RECURSIVE CheckServices(_, _, _, _, _)
CheckServices(names, outcomes, results, overall_status, checked) ==
    IF names = <<>>
    THEN [status |-> overall_status, services |-> results,
          checked |-> checked]
    ELSE LET service_name == Head(names)
             status == RecordedStatus(outcomes[service_name])
         IN  CheckServices(Tail(names), outcomes,
                           [name \in DOMAIN results \cup {service_name} |->
                               IF name = service_name THEN status
                               ELSE results[name]],
                           IF status = "unhealthy" THEN "unhealthy"
                           ELSE overall_status,
                           Append(checked, service_name))

\* HealthCheckService.check_health: status, the status of each
\* dependency, and the dependencies whose check was called, in order
check_health(outcomes) ==
    CheckServices(Services, outcomes, <<>>, "healthy", <<>>)

\* the names the endpoint puts in its refusal, in the order of the dict
UnhealthyServices(health_status) ==
    SelectSeq(Services,
              LAMBDA name : /\ name \in DOMAIN health_status.services
                            /\ health_status.services[name] = "unhealthy")

InitHealth ==
    /\ agent = "StockReActAgent"
    /\ NoAnalyze("query")
    /\ arg \in [ServiceNames -> HealthOutcomes]
    /\ result = <<>>
    /\ NoWorkflow

\* POST /agent/query up to the call of analyze: the endpoint answers 503
\* with the unhealthy dependencies, or calls analyze
query_agent ==
    /\ pc = "query"
    /\ LET health_status == check_health(arg)
       IN  result' = IF health_status.status = "unhealthy"
                     THEN [analyzed |-> FALSE, status_code |-> 503,
                           unhealthy_services |-> UnhealthyServices(health_status),
                           checked |-> health_status.checked]
                     ELSE [analyzed |-> TRUE, status_code |-> 200,
                           unhealthy_services |-> <<>>,
                           checked |-> health_status.checked]
    /\ pc' = "queried"
    /\ UNCHANGED <<agent, query, session_id, state, exc, payload, calls,
                   replies, tool_calls, arg>>
    /\ UNCHANGED workflow_vars

SpecHealth == InitHealth /\ [][query_agent]_vars

----------------------------------------------------------------------------
(* Document processing: S3 keys to chunks to the vector store *)

\* S3DocumentLoader.load_all_documents: batch_size
batch_size == 5

\* keys of a key list, documents of the bucket
MaxKeys == 5
MaxDocuments == 6

\* chunks of a document that has content
ChunksPerDocument == 2

\* The documents are numbered.  What happens to a document: it is chunked
\* and stored, it has no content, load_and_chunk_document raises,
\* add_documents returns False, add_documents raises
DocOutcomes == {"ok", "empty", "load_error", "store_false", "store_error"}

\* what loading alone can do
LoadOutcomes == {"ok", "empty", "load_error"}

\* what one call of add_documents can do
StoreOutcomes == {"completed", "not_completed", "error"}

\* S3DocumentLoader.load_and_chunk_document
load_and_chunk_document(s3_key, outcome) ==
    IF outcome = "load_error" THEN Raised("DocumentProcessingError")
    ELSE IF outcome = "empty" THEN Returned(<<>>)
    ELSE Returned([i \in 1..ChunksPerDocument |->
                      [source |-> s3_key, chunk_index |-> i - 1]])

\* QdrantVectorStore.add_documents
add_documents(documents, store) ==
    IF store = "error" THEN Raised("VectorStoreError")
    ELSE Returned(store = "completed")

StoreOf_always_completed(outcome) == "completed"

\* what add_documents does with the chunks of a document
StoreOf(outcome) ==
    IF outcome = "store_false" THEN "not_completed"
    ELSE IF outcome = "store_error" THEN "error"
    ELSE "completed"

Min(a, b) == IF a <= b THEN a ELSE b

\* load_all_documents, the loop over the batches: the documents of a
\* batch are loaded together by gather(..., return_exceptions=True), a
\* result that is an exception is logged and skipped.  loaded lists the
\* documents whose load was started.
RECURSIVE LoadBatches(_, _, _, _)
LoadBatches(documents, outcome, all_chunks, loaded) ==
    IF documents = <<>> THEN [all_chunks |-> all_chunks, loaded |-> loaded]
    ELSE LET n == Min(batch_size, Len(documents))
             batch == SubSeq(documents, 1, n)
             batch_results ==
                 [i \in 1..n |-> load_and_chunk_document(batch[i],
                                                         outcome[batch[i]])]
             Extend[i \in 0..n] ==
                 IF i = 0 THEN all_chunks
                 ELSE IF batch_results[i].raised THEN Extend[i - 1]
                 ELSE Extend[i - 1] \o batch_results[i].val
         IN  LoadBatches(SubSeq(documents, n + 1, Len(documents)), outcome,
                         Extend[n], loaded \o batch)

\* S3DocumentLoader.load_all_documents on a bucket whose listing works
\* or raises
load_all_documents(env) ==
    IF env.listing = "error" THEN Raised("DocumentProcessingError")
    ELSE Returned(LoadBatches([i \in 1..Len(env.outcome) |-> i],
                              env.outcome, <<>>, <<>>))

\* process_documents, the dict of the outer except
ProcessingFailed(s3_keys, e) ==
    [success |-> FALSE, processed_documents |-> 0, total_chunks |-> 0,
     failed_documents |-> s3_keys.v, error |-> e]

\* process_documents, the dict of the normal return
ProcessingDone(processed_docs, total_chunks, failed_docs) ==
    [success |-> TRUE, processed_documents |-> processed_docs,
     total_chunks |-> total_chunks, failed_documents |-> failed_docs]

\* process_documents, the loop over the keys given
RECURSIVE ProcessKeys(_, _, _, _, _)
ProcessKeys(s3_keys, outcome, total_chunks, processed_docs, failed_docs) ==
    IF s3_keys = <<>>
    THEN ProcessingDone(processed_docs, total_chunks, failed_docs)
    ELSE LET s3_key == Head(s3_keys)
             chunks == load_and_chunk_document(s3_key, outcome[s3_key])
             success == add_documents(chunks.val, StoreOf(outcome[s3_key]))
             stored == /\ ~chunks.raised /\ chunks.val # <<>>
                       /\ ~success.raised /\ success.val
         IN  IF stored
             THEN ProcessKeys(Tail(s3_keys), outcome,
                              total_chunks + Len(chunks.val),
                              processed_docs + 1, failed_docs)
             ELSE ProcessKeys(Tail(s3_keys), outcome, total_chunks,
                              processed_docs, Append(failed_docs, s3_key))

\* DocumentProcessingService.process_documents: ret is the dict returned,
\* loaded the documents load_all_documents started to load
process_documents(s3_keys, env) ==
    IF s3_keys.v = <<>>
    THEN LET all == load_all_documents(env)
         IN  IF all.raised
             THEN [ret |-> ProcessingFailed(s3_keys, all.exc), loaded |-> <<>>]
             ELSE LET all_chunks == all.val.all_chunks
                      total_chunks == Len(all_chunks)
                      processed_docs ==
                          Cardinality({all_chunks[i].source :
                                          i \in 1..Len(all_chunks)})
                      success == add_documents(all_chunks, env.store_all)
                  IN  [ret |-> IF all_chunks = <<>>
                               THEN ProcessingDone(processed_docs,
                                                   total_chunks, <<>>)
                               ELSE IF success.raised
                               THEN ProcessingFailed(s3_keys, success.exc)
                               ELSE IF ~success.val
                               THEN ProcessingFailed(s3_keys, "ValueError")
                               ELSE ProcessingDone(processed_docs,
                                                   total_chunks, <<>>),
                       loaded |-> all.val.loaded]
    ELSE [ret |-> ProcessKeys(s3_keys.v, env.outcome, 0, 0, <<>>),
          loaded |-> <<>>]

\* calls with a list of keys, each key with its outcome
KeyListInputs ==
    UNION {{[s3_keys |-> List([i \in 1..n |-> i]), outcome |-> o,
             listing |-> "ok", store_all |-> "completed"] :
               o \in [1..n -> DocOutcomes]} :
           n \in 1..MaxKeys}

\* calls without keys, None or the empty list, on a bucket of documents
BucketInputs ==
    UNION {{[s3_keys |-> k, outcome |-> o, listing |-> e[1],
             store_all |-> e[2]] :
               k \in {None, List(<<>>)},
               o \in [1..n -> LoadOutcomes],
               e \in {<<"error", "completed">>}
                        \cup {<<"ok", s>> : s \in StoreOutcomes}} :
           n \in 0..MaxDocuments}

InitDocuments ==
    /\ agent = "StockReActAgent"
    /\ NoAnalyze("documents")
    /\ arg \in KeyListInputs \cup BucketInputs
    /\ result = <<>>
    /\ NoWorkflow

\* one call of process_documents
process_documents_return ==
    /\ pc = "documents"
    /\ result' = process_documents(arg.s3_keys, arg)
    /\ pc' = "processed"
    /\ UNCHANGED <<agent, query, session_id, state, exc, payload, calls,
                   replies, tool_calls, arg>>
    /\ UNCHANGED workflow_vars

SpecDocuments == InitDocuments /\ [][process_documents_return]_vars

----------------------------------------------------------------------------
(* rag_knowledge: the filter on the retrieved results *)

\* RAGTool._execute_impl: min_score when the call gives none, in
\* hundredths
default_min_score == 70

\* results the retriever returns at most
MaxResults == 3

\* scores, in hundredths
Scores == {0, 50, 70, 90}

\* an optional key of a dict is the set of its values: empty or one
Absent == {}
Present(v) == {v}

\* dict.get(key, default)
Get(value, default) ==
    IF value = Absent THEN default ELSE CHOOSE v \in value : TRUE

\* the results a retriever may return: the i-th is titled i, its score
\* is present or not
SearchResults ==
    UNION {{[i \in 1..n |-> [title |-> i, score |-> s[i]]] :
               s \in [1..n -> {Absent} \cup {Present(v) : v \in Scores}]} :
           n \in 0..MaxResults}

\* what retrieve does: it raises or returns results
RetrieveOutcomes ==
    {Raised("Exception")} \cup {Returned(r) : r \in SearchResults}

\* RAGTool._format_knowledge_context: a part for each result, numbered
\* from 1, or the text that nothing was found
_format_knowledge_context(results) ==
    IF results = <<>> THEN <<"not_found">>
    ELSE [i \in 1..Len(results) |->
             [n |-> i, source |-> results[i].title,
              score |-> Get(results[i].score, 0)]]

\* RAGTool._extract_sources
_extract_sources(results) ==
    [i \in 1..Len(results) |->
        [title |-> results[i].title, score |-> Get(results[i].score, 0)]]

Passes_any_score(search_result, min_score) == TRUE

\* the test of the filter
Passes(search_result, min_score) == Get(search_result.score, 0) >= min_score

\* RAGTool._execute_impl
_execute_impl(kwargs, retrieved) ==
    LET min_score == Get(kwargs.min_score, default_min_score)
    IN  IF retrieved.raised THEN retrieved
        ELSE LET filtered_results ==
                     SelectSeq(retrieved.val,
                               LAMBDA r : Passes(r, min_score))
             IN  Returned(
                   [knowledge_context |->
                        _format_knowledge_context(filtered_results),
                    sources |-> _extract_sources(filtered_results),
                    total_results |-> Len(filtered_results),
                    confidence_scores |->
                        [i \in 1..Len(filtered_results) |->
                            Get(filtered_results[i].score, 0)]])

\* calls of rag_knowledge: min_score given or not, and what retrieve does
RagInputs ==
    {[min_score |-> m, retrieved |-> r] :
        m \in {Absent} \cup {Present(v) : v \in Scores},
        r \in RetrieveOutcomes}

InitRag ==
    /\ agent = "StockReActAgent"
    /\ NoAnalyze("rag")
    /\ arg \in RagInputs
    /\ result = <<>>
    /\ NoWorkflow

\* one call of rag_knowledge
rag_return ==
    /\ pc = "rag"
    /\ result' = _execute_impl(arg, arg.retrieved)
    /\ pc' = "rag_returned"
    /\ UNCHANGED <<agent, query, session_id, state, exc, payload, calls,
                   replies, tool_calls, arg>>
    /\ UNCHANGED workflow_vars

SpecRag == InitRag /\ [][rag_return]_vars

----------------------------------------------------------------------------
(* The chunk splitter of the document loader *)

\* characters of the longest text
MaxTextLength == 260

\* A text as _clean_text leaves it (stripped, no run of spaces, no run
\* of more than 20 equal characters): len characters, indexed from 0 as
\* in Python, of which dots are '.', spaces ' ', newlines '\n', and the
\* others letters that alternate.
Text(len, dots, spaces, newlines) ==
    [len |-> len, dots |-> dots, spaces |-> spaces, newlines |-> newlines]

\* the texts split: below and at the length that is skipped, and longer
\* ones with a sentence end, a newline, a '.' inside a word, a '.' as
\* last character, a blank line, a newline out of the search range
CleanTexts ==
    {Text(99, {}, {}, {}), Text(100, {}, {}, {}),
     Text(100, {59}, {60}, {}), Text(100, {}, {}, {45}),
     Text(130, {}, {}, {}), Text(130, {64}, {65}, {}),
     Text(130, {}, {}, {70}), Text(130, {62}, {}, {90}),
     Text(130, {129}, {}, {}), Text(130, {}, {}, {100, 101}),
     Text(MaxTextLength, {}, {}, {}),
     Text(MaxTextLength, {}, {}, {MaxTextLength - 15}),
     Text(MaxTextLength, {110}, {111}, {MaxTextLength - 15})}

\* settings.embeddings.chunk_size and chunk_overlap, plain integers
ChunkSizes == {-300, -10, 0, 1, 40, 60, 100, 1000}
ChunkOverlaps == {-5, 0, 10, 60, 1000}

\* text[k] of Python: an index below zero counts from the end, an index
\* out of range raises IndexError
InRange(text, k) == -text.len <= k /\ k < text.len

CharAt(text, k) ==
    LET p == IF k < 0 THEN text.len + k ELSE k
    IN  IF p \in text.dots THEN "."
        ELSE IF p \in text.spaces THEN " "
        ELSE IF p \in text.newlines THEN "\n"
        ELSE IF p % 2 = 0 THEN "a" ELSE "b"

\* len(text[start:end].strip()), start >= 0
StrippedLength(text, start, end) ==
    LET stop == IF end < 0 THEN text.len + end
                ELSE IF end > text.len THEN text.len ELSE end
        kept == {k \in start..(stop - 1) :
                    CharAt(text, k) \notin {" ", "\n"}}
    IN  IF kept = {} THEN 0
        ELSE (CHOOSE k \in kept : \A j \in kept : j <= k)
                - (CHOOSE k \in kept : \A j \in kept : k <= j) + 1

\* the search for a breaking point: the i at which the for loop breaks
Breaks(text, end, i) ==
    \/ /\ CharAt(text, end + i) = "."
       /\ end + i + 1 < text.len
       /\ CharAt(text, end + i + 1) \in {" ", "\n"}
    \/ CharAt(text, end + i) = "\n"

\* best_break after the for loop
best_break(text, end) ==
    LET search_range == Min(200, text.len - end)
        found == {i \in 0..(search_range - 1) : Breaks(text, end, i)}
    IN  IF found = {} THEN end
        ELSE end + (CHOOSE i \in found : \A j \in found : i <= j) + 1

NextStart_without_progress(start, end, chunk_overlap) == end - chunk_overlap

\* start = max(start + 1, end - chunk_overlap)
NextStart(start, end, chunk_overlap) ==
    IF start + 1 >= end - chunk_overlap THEN start + 1
    ELSE end - chunk_overlap

\* the local variables of _split_text_into_chunks; raised tells whether
\* it raised
SplitLocals(start, chunk_index, chunks, raised) ==
    [start |-> start, chunk_index |-> chunk_index, chunks |-> chunks,
     raised |-> raised]

SplitInputs ==
    {[text |-> t, chunk_size |-> s, chunk_overlap |-> o] :
        t \in CleanTexts, s \in ChunkSizes, o \in ChunkOverlaps}

InitSplit ==
    /\ agent = "StockReActAgent"
    /\ NoAnalyze("split")
    /\ arg \in SplitInputs
    /\ result = <<>>
    /\ NoWorkflow

\* _split_text_into_chunks up to the while loop
split_enter ==
    /\ pc = "split"
    /\ result' = SplitLocals(0, 0, <<>>, FALSE)
    /\ pc' = IF arg.text.len < 100 THEN "split_returned" ELSE "split_loop"
    /\ UNCHANGED <<agent, query, session_id, state, exc, payload, calls,
                   replies, tool_calls, arg>>
    /\ UNCHANGED workflow_vars

\* one iteration of the while loop, entered with start < len(text)
split_iteration ==
    /\ pc = "split_loop"
    /\ LET text == arg.text
           start == result.start
           end0 == start + arg.chunk_size
           searched == end0 < text.len
           end == IF searched THEN best_break(text, end0) ELSE end0
           length == StrippedLength(text, start, end)
           chunks == IF length > 50
                     THEN Append(result.chunks,
                                 [chunk_index |-> result.chunk_index,
                                  start_char |-> start, end_char |-> end,
                                  length |-> length])
                     ELSE result.chunks
           next == NextStart(start, end, arg.chunk_overlap)
       IN  IF searched /\ ~InRange(text, end0)
           THEN /\ result' = [result EXCEPT !.raised = TRUE]
                /\ pc' = "split_returned"
           ELSE /\ result' = SplitLocals(next, Len(chunks), chunks, FALSE)
                /\ pc' = IF next >= text.len THEN "split_returned"
                         ELSE "split_loop"
    /\ UNCHANGED <<agent, query, session_id, state, exc, payload, calls,
                   replies, tool_calls, arg>>
    /\ UNCHANGED workflow_vars

SpecSplit == InitSplit /\ [][split_enter \/ split_iteration]_vars

----------------------------------------------------------------------------
(* Properties *)

Last(seq) == seq[Len(seq)]

\* the content of the most recent assistant turn of messages, <<>> if none
RECURSIVE LastAssistant(_)
LastAssistant(messages) ==
    IF messages = <<>> THEN <<>>
    ELSE IF Last(messages).role = "assistant" THEN Last(messages).content.v
    ELSE LastAssistant(SubSeq(messages, 1, Len(messages) - 1))

\* C1: every run of the workflow driver terminates: whatever the model
\* replies and the tools return, agent_node is invoked at most max_steps
\* times, and it is about to be invoked only while fewer than max_steps
\* calls have been made.
C1_RunTerminates ==
    /\ calls <= max_steps
    /\ pc = "agent" => calls < max_steps

\* a run that only the step budget stopped: the last message still asks
\* to continue and there is no final answer
C1_Witness ==
    /\ pc = "done"
    /\ exc = NoExc
    /\ calls = max_steps
    /\ state.current_step = max_steps
    /\ ~Truthy(state.final_answer)
    /\ Contains(Last(state.messages).content.v, ActionMarker)

C3_StepWithinBudget == state.current_step <= state.max_steps

\* the budget is used up
C3_Witness == pc = "returned" /\ state.current_step = state.max_steps

\* C4: a tool failure does not raise out of _step: after a step whose tool
\* call failed, no exception is in flight and intermediate_results has one
\* entry for every tool call.
C4_ToolFailureContained ==
    (tool_calls # <<>> /\ Last(tool_calls).outcome.raised)
        => /\ exc = NoExc
           /\ Len(state.intermediate_results) = Len(tool_calls)

\* C5: a call of _step on a state whose final_answer is set returns a
\* state with the same final_answer.
C5_FinalAnswerKept ==
    [][(pc = "agent" /\ Truthy(state.final_answer) /\ pc' = "route")
           => state'.final_answer = state.final_answer]_vars

\* the predicate C6 gives for TERMINATED
C6_Terminated(s) ==
    \/ Truthy(s.final_answer)
    \/ s.current_step >= s.max_steps
    \/ ~Contains(LastAssistant(s.messages), ActionMarker)

\* C6: after each step the driver has ended exactly when final_answer is
\* set, or current_step >= max_steps, or the most recent assistant turn
\* has no "Action:"; otherwise it invokes _step again.
C6_TerminatedIffPredicate ==
    /\ pc = "returned" => C6_Terminated(state)
    /\ (pc = "agent" /\ calls > 0) => ~C6_Terminated(state)

\* the run has ended normally and every model reply was a bare thought
ThoughtOnlyRun ==
    /\ pc \in {"returned", "done"}
    /\ exc = NoExc
    /\ replies # <<>>
    /\ \A i \in 1..Len(replies) : replies[i] = ThoughtReply

C8_AnalyzeNeverRaises ==
    /\ pc # "propagated"
    /\ (pc = "done" /\ exc # NoExc) =>
          /\ payload.metadata.success = FALSE
          /\ payload.metadata.tools_used = <<>>
          /\ payload.metadata.intermediate_results = <<>>
          /\ payload.answer # <<>>
          /\ DOMAIN payload = DOMAIN SuccessPayload(session_id, EmptyState)
          /\ DOMAIN payload.metadata
                = DOMAIN SuccessPayload(session_id, EmptyState).metadata

\* analyze has returned after the model call threw in a later step
C8_Witness == pc = "done" /\ exc = "ChatError" /\ calls >= 2

\* C9: success is true only when the state run returned has a final
\* answer.
C9_SuccessMeansAnswer ==
    pc = "done" => (payload.metadata.success => Truthy(state.final_answer))

IsPrefix(a, b) == Len(a) <= Len(b) /\ SubSeq(b, 1, Len(a)) = a

\* C11: a step only appends to messages: the messages handed to a step
\* are a prefix of the messages it returns.
C11_MessagesAppendOnly ==
    [][(pc = "agent" /\ pc' = "route")
          => IsPrefix(state.messages, state'.messages)]_vars

\* reason was called on a state dict it cannot read
Unreadable(d) ==
    \/ "messages" \notin d.present
    \/ "current_step" \notin d.present
    \/ d.messages.t # "list"

\* C12: reason never raises: called on a state whose messages or
\* current_step cannot be read, it returns the messages with one assistant
\* error turn appended, a non-empty final_answer and the step counter
\* plus one.
C12_ReasonNeverRaises ==
    pc = "reasoned" =>
        /\ ~result.raised
        /\ Unreadable(arg) =>
              /\ Truthy(result.val.final_answer)
              /\ Len(result.val.messages) = Len(arg.messages.v) + 1
              /\ Last(result.val.messages).role = "assistant"
              /\ result.val.current_step = arg.current_step + 1

\* C13: when the model call or anything else inside a step raises, run
\* raises to its caller: the workflow takes no further step, run returns
\* no state, and analyze answers with its failure payload.
C13_RunRaises ==
    exc # NoExc =>
        /\ pc \in {"raised", "done", "propagated"}
        /\ pc = "done" => payload = FailurePayload(session_id, exc)

\* run has raised what a tool raised in the second step
C13_Witness == pc = "raised" /\ exc = "ToolError" /\ calls = 2

\* C14: after a step whose reply contains the final-answer marker the
\* workflow takes no further step, whatever follows the marker and
\* whatever else the reply contains.
C14_FinalMarkerTerminates ==
    (pc = "agent" /\ replies # <<>>)
        => ~Contains(Last(replies), FinalAnswerMarker)

\* some line of text, stripped, starts with marker
HasMarkerLine(text, marker) ==
    \E i \in 1..Len(SplitLines(text)) :
        StartsWith(Strip(SplitLines(text)[i]), marker)

\* text holds markers, none of them at the start of a line
MarkersOnlyMidLine(text) ==
    /\ \E marker \in {ActionMarker, ActionInputMarker, FinalAnswerMarker} :
          Contains(text, marker)
    /\ \A marker \in {ActionMarker, ActionInputMarker, FinalAnswerMarker} :
          ~HasMarkerLine(text, marker)

\* C17: a reply whose markers all stand in the middle of a line is a reply
\* without markers: the step sets no final answer and calls no tool, and
\* the workflow does not go on because of it.
C17_MarkersAreLinePrefixes ==
    [][/\ (/\ pc = "agent" /\ pc' = "route"
           /\ replies' # replies
           /\ MarkersOnlyMidLine(Last(replies')))
          => /\ state'.final_answer = state.final_answer
             /\ tool_calls' = tool_calls
       /\ (/\ pc = "route"
           /\ replies # <<>>
           /\ MarkersOnlyMidLine(Last(replies)))
          => pc' # "agent"]_vars

\* the lines of text that, stripped, start with marker
MarkerLines(text, marker) ==
    {i \in 1..Len(SplitLines(text)) :
        StartsWith(Strip(SplitLines(text)[i]), marker)}

\* line i of text without marker and without surrounding whitespace
LineValue(text, i, marker) ==
    Str(Strip(Replace(Strip(SplitLines(text)[i]), marker)))

\* C15: parse_tool_usage returns (None, None) when no line starts with
\* "Action:" or none starts with "Action Input:"; otherwise it returns the
\* values of one line of each kind, marker removed and whitespace
\* stripped, and ("chat_llm", "hello") for the example reply.
C15_ParseToolUsage ==
    pc = "parsed" =>
        /\ (MarkerLines(arg, ActionMarker) = {}
               \/ MarkerLines(arg, ActionInputMarker) = {})
              => result = <<None, None>>
        /\ (MarkerLines(arg, ActionMarker) # {}
               /\ MarkerLines(arg, ActionInputMarker) # {})
              => \E i \in MarkerLines(arg, ActionMarker) :
                   \E j \in MarkerLines(arg, ActionInputMarker) :
                     result = <<LineValue(arg, i, ActionMarker),
                                LineValue(arg, j, ActionInputMarker)>>
        /\ arg = ExampleReply
              => result = <<Str(<<"chat_llm">>), Str(<<"hello">>)>>

\* the example reply has been parsed
C15_Witness == pc = "parsed" /\ arg = ExampleReply /\ result[1] # None

\* the last element of a non-empty set of line numbers
MaxOf(S) == CHOOSE i \in S : \A j \in S : j <= i

\* C16: when a marker starts several lines the last of them wins, for
\* each marker on its own; the example with a, x, b, y gives ("b", "y").
C16_LastMarkerWins ==
    (pc = "parsed" /\ result # <<None, None>>) =>
        /\ result[1] = LineValue(arg, MaxOf(MarkerLines(arg, ActionMarker)),
                                 ActionMarker)
        /\ result[2] = LineValue(arg, MaxOf(MarkerLines(arg, ActionInputMarker)),
                                 ActionInputMarker)
        /\ arg = RepeatedReply => result = <<Str(<<"b">>), Str(<<"y">>)>>

\* the example with repeated markers has been parsed
C16_Witness == pc = "parsed" /\ arg = RepeatedReply /\ result[1] # None

\* the fields of the uniform result record
EnvelopeKeys == {"tool_name", "success", "execution_time"}

\* C19: every record of intermediate_results carries the tool's name, a
\* success flag and the execution time.
C19_UniformEnvelope ==
    \A i \in 1..Len(state.intermediate_results) :
        EnvelopeKeys \subseteq state.intermediate_results[i].keys

Failing(outcomes) ==
    SelectSeq(Services,
              LAMBDA name : outcomes[name] \in {Returned("unhealthy"),
                                                Raised("HealthError")})

\* C20: the query endpoint calls analyze only when no dependency reported
\* unhealthy and no health check raised; otherwise it refuses and lists
\* exactly the dependencies recorded as unhealthy; every dependency is
\* checked, also after an earlier one failed.
C20_HealthGate ==
    pc = "queried" =>
        /\ result.analyzed <=> Failing(arg) = <<>>
        /\ ~result.analyzed =>
              /\ result.status_code = 503
              /\ result.unhealthy_services = Failing(arg)
        /\ result.checked = Services

\* the endpoint has refused after the first dependency raised and the
\* last one reported unhealthy
C20_Witness ==
    /\ pc = "queried"
    /\ arg["vector_store"] = Raised("HealthError")
    /\ arg["s3_loader"] = Returned("unhealthy")
    /\ ~result.analyzed

\* tail is what follows the last marker of text, without surrounding
\* whitespace
AfterLastMarker(text, marker, tail) ==
    \E i \in 1..Len(text) :
        /\ text[i] = marker
        /\ \A j \in (i + 1)..Len(text) : text[j] # marker
        /\ LET words == {k \in (i + 1)..Len(text) : text[k] \notin Whitespace}
           IN  IF words = {} THEN tail = <<>>
               ELSE \E a, b \in words :
                      /\ \A k \in words : a <= k /\ k <= b
                      /\ tail = [k \in 1..(b - a + 1) |-> text[a + k - 1]]

\* C24: a step whose reply contains the final-answer marker sets
\* final_answer to the stripped text after the last marker and invokes no
\* tool, also when the reply asks for a registered tool: tools_used and
\* intermediate_results stay as they were.
C24_FinalAnswerFirst ==
    [][(/\ pc = "agent" /\ pc' = "route"
        /\ replies' # replies
        /\ Contains(Last(replies'), FinalAnswerMarker))
          => /\ state'.final_answer.t = "str"
             /\ AfterLastMarker(Last(replies'), FinalAnswerMarker,
                                state'.final_answer.v)
             /\ Last(replies') = TwoFinalReply
                   => state'.final_answer = Str(<<"second">>)
             /\ tool_calls' = tool_calls
             /\ state'.tools_used = state.tools_used
             /\ state'.intermediate_results = state.intermediate_results]_vars

\* a step has answered a reply that asks for a registered tool and gives
\* a final answer
C24_Witness ==
    /\ pc = "route"
    /\ replies = <<FinalWithActionReply>>
    /\ state.final_answer = Str(<<"answer">>)
    /\ tool_calls = <<>>

\* the turns of messages with the given role
TurnsOf(messages, role) ==
    Len(SelectSeq(messages, LAMBDA m : m.role = role))

\* the reply asks for a tool of the registry and gives no final answer
AsksForTool(reply) ==
    /\ ~Contains(reply, FinalAnswerMarker)
    /\ \E tool \in ToolNames : parse_tool_usage(reply)[1] = Str(<<tool>>)

\* C25: a step whose reply gives no final answer and names a tool of the
\* registry invokes that tool once with the parsed input; when the tool
\* returns, the step appends the reply and then one user turn to
\* messages, the tool name to tools_used and the tool's result to
\* intermediate_results, and leaves final_answer as it was.
C25_ToolDispatch ==
    [][(/\ pc = "agent"
        /\ replies' # replies
        /\ AsksForTool(Last(replies')))
          => /\ Len(tool_calls') = Len(tool_calls) + 1
             /\ SubSeq(tool_calls', 1, Len(tool_calls)) = tool_calls
             /\ Str(<<Last(tool_calls').tool>>)
                   = parse_tool_usage(Last(replies'))[1]
             /\ Str(Last(tool_calls').input)
                   = parse_tool_usage(Last(replies'))[2]
             /\ pc' = "route" =>
                   LET n == Len(state'.messages)
                   IN  /\ state'.messages[n - 1]
                             = Msg("assistant", Str(Last(replies')))
                       /\ state'.messages[n].role = "user"
                       /\ TurnsOf(state'.messages, "user")
                             = TurnsOf(state.messages, "user") + 1
                       /\ TurnsOf(state'.messages, "assistant")
                             = TurnsOf(state.messages, "assistant") + 1
                       /\ state'.tools_used
                             = Append(state.tools_used, Last(tool_calls').tool)
                       /\ state'.intermediate_results
                             = Append(state.intermediate_results,
                                      Last(tool_calls').outcome.val)
                       /\ state'.final_answer = state.final_answer]_vars

\* a first step has called rag_knowledge and returned
C25_Witness ==
    /\ pc = "route"
    /\ calls = 1
    /\ state.tools_used = <<"rag_knowledge">>
    /\ Len(tool_calls) = 1
    /\ Last(state.messages).role = "user"

\* the reply gives no final answer and names no tool of the registry
AsksForNothing(reply) ==
    /\ ~Contains(reply, FinalAnswerMarker)
    /\ LET tool_name == parse_tool_usage(reply)[1]
       IN  \/ tool_name = None
           \/ tool_name.v = <<>>
           \/ tool_name.v \notin {<<tool>> : tool \in ToolNames}

\* C26: a step whose reply gives no final answer and names no tool, an
\* empty tool or a tool outside the registry invokes no tool, appends only
\* the reply to messages, leaves tools_used, intermediate_results,
\* final_answer and max_steps as they were, and adds one to current_step.
C26_ThinkingStep ==
    [][(/\ pc = "agent"
        /\ replies' # replies
        /\ AsksForNothing(Last(replies')))
          => /\ pc' = "route"
             /\ tool_calls' = tool_calls
             /\ Last(state'.messages) = Msg("assistant", Str(Last(replies')))
             /\ TurnsOf(state'.messages, "user")
                   = TurnsOf(state.messages, "user")
             /\ TurnsOf(state'.messages, "assistant")
                   = TurnsOf(state.messages, "assistant") + 1
             /\ state'.tools_used = state.tools_used
             /\ state'.intermediate_results = state.intermediate_results
             /\ state'.final_answer = state.final_answer
             /\ state'.max_steps = state.max_steps
             /\ state'.current_step = state.current_step + 1]_vars

\* steps have passed over a reply with an empty tool name and over a
\* reply naming a tool outside the registry
C26_Witness ==
    /\ pc = "route"
    /\ replies = <<UnknownToolReply, EmptyNameReply>>
    /\ state.current_step >= 2
    /\ tool_calls = <<>>

ReturnedToolCalls == SelectSeq(tool_calls, LAMBDA c : ~c.outcome.raised)

\* C28: tools_used and intermediate_results have the same length, the
\* number of steps that got a result from a tool, at most current_step;
\* tools_used[i] is the tool that returned intermediate_results[i], in
\* call order, and a key of the registry.
C28_ToolsAligned ==
    /\ Len(state.tools_used) = Len(state.intermediate_results)
    /\ Len(state.tools_used) = Len(ReturnedToolCalls)
    /\ Len(state.tools_used) <= state.current_step
    /\ \A i \in 1..Len(state.tools_used) :
          /\ state.tools_used[i] = ReturnedToolCalls[i].tool
          /\ state.intermediate_results[i] = ReturnedToolCalls[i].outcome.val
          /\ state.intermediate_results[i].keys
                = ResultKeys(state.tools_used[i])
          /\ state.tools_used[i] \in ToolNames

\* two different tools have returned in a run that also had a step
\* without tool
C28_Witness ==
    /\ Len(state.tools_used) = 2
    /\ state.tools_used[1] # state.tools_used[2]
    /\ state.current_step = 3
    /\ pc = "route"

\* C29: a step that gets a reply from the model puts one system turn at
\* the head of messages and the reply at the tail, followed by one user
\* turn exactly when a tool returned; so the system turns and the
\* assistant turns of a run both number current_step, and messages has
\* 1 + 2 * current_step + Len(tools_used) turns.
C29_MessageAccounting ==
    [][/\ (pc = "agent" /\ pc' = "route") =>
             LET grown == <<Msg("system", SystemPromptOf(agent))>>
                              \o state.messages
                              \o <<Msg("assistant", Str(Last(replies')))>>
             IN  /\ replies' # replies
                 /\ IF tool_calls' # tool_calls
                    THEN /\ Len(state'.messages) = Len(grown) + 1
                         /\ SubSeq(state'.messages, 1, Len(grown)) = grown
                         /\ Last(state'.messages).role = "user"
                    ELSE state'.messages = grown
       /\ pc' # "start" =>
             /\ TurnsOf(state'.messages, "system") = state'.current_step
             /\ TurnsOf(state'.messages, "assistant") = state'.current_step
             /\ Len(state'.messages)
                   = 1 + 2 * state'.current_step + Len(state'.tools_used)]_vars

\* a run of three steps, one of them with a tool
C29_Witness ==
    /\ pc = "returned"
    /\ state.current_step = 3
    /\ Len(state.tools_used) = 1
    /\ Len(state.messages) = 8
    /\ TurnsOf(state.messages, "system") = 3

\* the documents of keys that were chunked and stored, and the others
Stored(keys, outcome) == SelectSeq(keys, LAMBDA k : outcome[k] = "ok")
NotStored(keys, outcome) == SelectSeq(keys, LAMBDA k : outcome[k] # "ok")

\* what C21 says of a call with the key list of arg
KeysAccounted ==
    /\ result.ret.success
    /\ result.ret.failed_documents = NotStored(arg.s3_keys.v, arg.outcome)
    /\ result.ret.processed_documents
          = Len(Stored(arg.s3_keys.v, arg.outcome))
    /\ result.ret.processed_documents + Len(result.ret.failed_documents)
          = Len(arg.s3_keys.v)
    /\ (Len(arg.s3_keys.v) = 5
           /\ Len(NotStored(arg.s3_keys.v, arg.outcome)) = 1)
          => result.ret.processed_documents = 4

\* C21 as stated: process_documents called with a list of keys accounts
\* for every key once: the keys that failed are in failed_documents, in
\* input order, the others are counted in processed_documents.
C21_EveryKeyAccounted ==
    (pc = "processed" /\ arg.s3_keys.t = "list") => KeysAccounted

\* C21: process_documents called with a list of at least one key accounts
\* for every key once: the keys that failed are in failed_documents, in
\* input order, the others are counted in processed_documents.
C21_EveryGivenKeyAccounted ==
    (pc = "processed" /\ arg.s3_keys.t = "list" /\ arg.s3_keys.v # <<>>)
        => KeysAccounted

\* five keys, the third of which fails to load, have been processed
C21_Witness ==
    /\ pc = "processed"
    /\ Len(arg.s3_keys.v) = 5
    /\ NotStored(arg.s3_keys.v, arg.outcome) = <<3>>
    /\ arg.outcome[3] = "load_error"
    /\ result.ret.processed_documents = 4
    /\ result.ret.failed_documents = <<3>>

\* the documents of the bucket, in listing order
BucketDocuments == [i \in 1..Len(arg.outcome) |-> i]

\* C22: when all documents are ingested in batches (no key list given),
\* a failing item aborts neither its batch nor the batches after it,
\* and the failed items are returned in failed_documents next to the
\* count of the documents that succeeded.
C22_BatchFailuresReported ==
    (pc = "processed" /\ arg.s3_keys = None
        /\ arg.listing = "ok" /\ arg.store_all = "completed")
        => /\ result.loaded = BucketDocuments
           /\ result.ret.processed_documents
                 = Len(Stored(BucketDocuments, arg.outcome))
           /\ result.ret.failed_documents
                 = SelectSeq(BucketDocuments,
                             LAMBDA k : arg.outcome[k] = "load_error")

\* the retrieved results whose score, 0 if absent, reaches the min_score
\* of the call
Survivors ==
    SelectSeq(arg.retrieved.val,
              LAMBDA r : Get(r.score, 0)
                            >= Get(arg.min_score, default_min_score))

\* C23: rag_knowledge discards the results whose score (0 if absent) is
\* below min_score: every confidence score returned is >= min_score, the
\* results left keep their retrieval order, and total_results =
\* len(sources) = len(confidence_scores).
C23_MinScoreFilter ==
    (pc = "rag_returned" /\ ~arg.retrieved.raised)
        => /\ ~result.raised
           /\ \A i \in 1..Len(result.val.confidence_scores) :
                 result.val.confidence_scores[i]
                    >= Get(arg.min_score, default_min_score)
           /\ result.val.total_results = Len(Survivors)
           /\ result.val.total_results = Len(result.val.sources)
           /\ result.val.total_results = Len(result.val.confidence_scores)
           /\ \A i \in 1..Len(Survivors) :
                 /\ result.val.sources[i].title = Survivors[i].title
                 /\ result.val.sources[i].score
                       = result.val.confidence_scores[i]
                 /\ result.val.confidence_scores[i]
                       = Get(Survivors[i].score, 0)

\* three results were retrieved; the one without a score and the one
\* below min_score were dropped
C23_Witness ==
    /\ pc = "rag_returned"
    /\ ~arg.retrieved.raised
    /\ arg.min_score = Absent
    /\ Len(arg.retrieved.val) = 3
    /\ arg.retrieved.val[1].score = Absent
    /\ arg.retrieved.val[2].score = Present(90)
    /\ arg.retrieved.val[3].score = Present(50)
    /\ result.val.total_results = 1
    /\ result.val.sources[1].title = 2

\* C30: the chunk splitter terminates for every text, chunk_size and
\* chunk_overlap (chunk_overlap >= chunk_size too): an iteration of its
\* loop raises or moves start up, and the loop goes on only while start
\* is below len(text); the chunks emitted have the chunk_index values
\* 0..n-1 and strictly increasing start_char.
C30_SplitterTerminates ==
    [][/\ pc = "split_loop"
          => /\ result'.raised \/ result'.start > result.start
             /\ pc' = "split_loop" => result'.start < arg.text.len
             /\ pc' \in {"split_loop", "split_returned"}
       /\ pc' \in {"split_loop", "split_returned"}
          => /\ \A i \in 1..Len(result'.chunks) :
                   result'.chunks[i].chunk_index = i - 1
             /\ \A i \in 1..(Len(result'.chunks) - 1) :
                   result'.chunks[i].start_char
                      < result'.chunks[i + 1].start_char]_vars

\* a split with chunk_overlap >= chunk_size has returned several chunks
C30_Witness ==
    /\ pc = "split_returned"
    /\ arg.chunk_size > 0
    /\ arg.chunk_overlap >= arg.chunk_size
    /\ ~result.raised
    /\ Len(result.chunks) >= 2
    /\ result.start >= arg.text.len

====
